---------------------------- MODULE Spec2Model ----------------------------
(***************************************************************************)
(* State-machine model of the ETL orchestrator in src/main.py              *)
(* (class ETLPipeline and main) together with the collaborators it calls.  *)
(*                                                                         *)
(* Strings that the code takes apart (source names, artifact names, query  *)
(* paths, table names) are sequences of tokens, so that building a file    *)
(* name, globbing, Path.stem and str.replace are computed and not assumed. *)
(* A Python dict is a sequence of [k, v] records in insertion order.       *)
(***************************************************************************)
EXTENDS Integers, Sequences, FiniteSets, TLC

\* ------------------------------------------------------------------ bounds
\* calls of run_pipeline, and the items (sources, queries and target tables)
\* the loops take, both counted over the whole behaviour
MaxRuns == 2
MaxItems == 3
\* tokens in a logical name or a table name given to a single function call
MaxNameTokens == 2

\* ------------------------------------------------------- values and inputs
NoExc == "NoExc"

\* datetime values: None or a reading of the clock
NoneTime == [isNone |-> TRUE, t |-> 0]
TimeAt(c) == [isNone |-> FALSE, t |-> c]

\* a DataFrame (only its length is observed by the orchestrator), or None
NoneDf == [isNone |-> TRUE, rows |-> 0]
Df(n) == [isNone |-> FALSE, rows |-> n]
DfLen(df) == df.rows

\* --stage choices of the CLI, and the default None
StageNone == "None"
Stages == {"extract", "transform", "load"}
StageArgs == Stages \cup {StageNone}

\* the sources a configuration may declare, in order: names are unique
\* within a run, so the i-th declared source carries the i-th name
NameTokens == <<"orders", "users", "events", "items", "visits">>
SourceNameAt(i) == <<NameTokens[i]>>
\* the rows the i-th source holds at the first call of run_pipeline; it gains
\* one row between calls, so a read during call r gives SourceData(i, r)
SourceRows == <<10, 15, 20, 5, 30>>
SourceData(i, r) == Df(SourceRows[i] + r - 1)
\* source['connection']: the sources of one database type share a database
ConnectionString(type) == <<type, "://db">>
MissingKey == <<"<missing>">>
SourceTypes == {"postgresql", "mysql", "api", "file", "ftp"}
SourceDescriptors(i) ==
    [name : {SourceNameAt(i), MissingKey}, type : SourceTypes \cup {"<missing>"}]

\* pipeline.stages.transform.sql_queries
QueryStems == <<"sales", "customer", "orders", "daily", "users">>
QueryPathAt(i) == <<"sql/", QueryStems[i], ".sql">>
\* the dataset the i-th query gives when it succeeds
QueryRows == <<7, 3, 12, 1, 4>>
QueryData(i) == Df(QueryRows[i])

\* pipeline.stages.load.target_tables, in the order declared
TargetTables ==
    <<<<"fact_", "sales">>, <<"dim_", "customer">>, <<"daily">>, <<"orders">>, <<"users">>>>
TargetTableAt(i) == TargetTables[i]

DirTokens == {"sql/"}
ExtTokens == {".sql", ".parquet"}

\* ------------------------------------------------------------ python dicts
DictKeys(d) == {d[i].k : i \in 1..Len(d)}
DictGet(d, key) == (CHOOSE i \in 1..Len(d) : d[i].k = key)
DictValue(d, key) == d[DictGet(d, key)].v
DictPut(d, key, val) ==
    IF key \in DictKeys(d)
    THEN [d EXCEPT ![DictGet(d, key)] = [k |-> key, v |-> val]]
    ELSE Append(d, [k |-> key, v |-> val])

\* ---------------------------------------------------------- string helpers
\* str.replace(tok, ''): every occurrence goes
ReplaceAll(s, tok) == SelectSeq(s, LAMBDA x : x # tok)
\* Path(p).stem: the final component without its last suffix
FinalComponent(p) == SelectSeq(p, LAMBDA x : x \notin DirTokens)
Stem(p) ==
    LET f == FinalComponent(p)
    IN  IF Len(f) > 1 /\ f[Len(f)] \in ExtTokens THEN SubSeq(f, 1, Len(f) - 1) ELSE f
\* Path.glob("*" + suffix + ".parquet") over the files of a directory
GlobSuffix(dir, suffix) ==
    {f \in DOMAIN dir : Len(f) >= 2 /\ f[Len(f) - 1] = suffix /\ f[Len(f)] = ".parquet"}

StagingFile(source_name) == source_name \o <<"_staging", ".parquet">>
TransformedFile(data_name) == data_name \o <<"_transformed", ".parquet">>

\* main.py imports no pandas: the name pd of lines 232 and 273 is unbound
PandasImported == FALSE

VARIABLES
    pc,                 \* position of the caller / of run_pipeline
    stage,              \* the stage argument of the current run
    runs,               \* run_pipeline calls so far, over all instances
    instRuns,           \* run_pipeline calls so far on this instance
    taken,              \* loop items taken so far, over all runs
    clock,              \* readings of datetime.now() so far
    start_time, end_time, records_processed, errors,   \* ETLPipeline fields
    staging, output,    \* the two artifact directories: file -> DataFrame
    summary_file,       \* pipeline_summary.json: its content, or absent
    idx,                \* items of the current loop taken so far
    source_name,        \* the local of _run_extract_stage, unbound at first
    extracted_data, staging_data, transformed_data,    \* the stages' locals
    engines,            \* DatabaseExtractor.engines: the connection strings that
                        \* have an engine, none of them disposed
    exc,                \* the exception in flight, or NoExc
    exit_code,          \* of the CLI process: <<>> while it runs, then <<code>>
    \* history of the current run, read by the properties only
    trace,              \* the steps of run_pipeline taken
    log,                \* one record per loop item handled
    itemFailures,       \* items whose handling appended to self.errors
    errorsAtStart,      \* Len(errors) when the run began
    fatalAt,            \* where the aborting exception was raised
    summaryWrites,      \* writes of pipeline_summary.json
    cleanupFailed,      \* cleanup_temp_files raised
    \* history of the whole behaviour
    lastExtracted,      \* source name -> the dataset its latest successful
                        \* extraction returned
    \* a single call of one of the program's functions, and what it gave
    call, ret,
    locals,             \* the locals of a call that is inside its loop
    \* history of a DatabaseExtractor used on its own
    engineRequests      \* one record per extraction call made on it

vars == <<pc, stage, runs, instRuns, taken, clock, start_time, end_time, records_processed,
          errors, staging, output, summary_file, idx, source_name, extracted_data,
          staging_data, transformed_data, exc, exit_code, trace, log, itemFailures,
          errorsAtStart, fatalAt, summaryWrites, cleanupFailed, engines, lastExtracted,
          call, ret, locals, engineRequests>>

fnVars == <<call, ret, locals, engineRequests>>
instanceVars == <<start_time, end_time, records_processed, errors>>
diskVars == <<staging, output, summary_file>>
localVars == <<idx, source_name, extracted_data, staging_data, transformed_data>>
historyVars == <<trace, log, itemFailures, errorsAtStart, fatalAt, summaryWrites,
                 cleanupFailed>>
callVars == <<stage, runs, instRuns, exit_code>>
loopVars == <<callVars, taken>>

EmptyDir == [f \in {} |-> NoneDf]
NoSummary == [present |-> FALSE, records_processed |-> 0, errors_count |-> 0,
              errors |-> <<>>, status |-> "", start_time |-> NoneTime,
              end_time |-> NoneTime, duration_seconds |-> 0]
Unbound == <<"<unbound>">>
NoCall == [fn |-> "none"]
NoRet == [kind |-> "none"]
NoLocals == [pc |-> "none"]

\* an entry of self.errors: the place that appended it and the item its
\* message names (for the entry of line 104 the message is the exception's
\* text alone); the text after the item's name is not kept
ErrorEntry(at, item) == [at |-> at, item |-> item]

\* ------------------------------------------------- calls and their results
\* what a call gives back: a value, or an exception
Returned(df) == [kind |-> "return", df |-> df, exc |-> NoExc]
Raised(e) == [kind |-> "raise", df |-> NoneDf, exc |-> e]

\* where the body of extract_postgresql / extract_mysql may fail: reading
\* source_config['connection'] (line 61), create_engine inside _get_engine
\* (line 42, raised again at line 46), pd.read_sql (line 70)
FailurePoints == {"none", "connection", "engine", "query"}

\* a faulty _get_engine that enters the connection string in the cache before
\* create_engine has returned
GetEngineCachingFailure(pool, connection_string, created) ==
    pool \cup {connection_string}

\* _get_engine, lines 40-48: the pool after the call; an engine is made only
\* for a connection string that has none, and kept only if create_engine
\* returned
get_engine(pool, connection_string, created) ==
    IF connection_string \in pool THEN pool
    ELSE IF created THEN pool \cup {connection_string}
    ELSE pool

\* the failure points open to a call: create_engine is not reached for a
\* connection string that has an engine already
FailurePointsFor(pool, connection_string) ==
    IF connection_string \in pool THEN FailurePoints \ {"engine"} ELSE FailurePoints

\* what _get_engine did in a call failing at failAt: it is not reached when
\* the connection key is missing; it returns the cached engine (line 48) without
\* calling create_engine when the test of line 40 fails; otherwise it calls
\* create_engine, which returns (line 42) or raises (lines 44-46)
EngineEvent(pool, connection_string, failAt) ==
    IF failAt = "connection" THEN "unreached"
    ELSE IF connection_string \in pool THEN "cached"
    ELSE IF failAt = "engine" THEN "failed"
    ELSE "created"

\* the pool after extract_postgresql / extract_mysql failing at failAt
EnginesAfter(pool, connection_string, failAt) ==
    IF failAt = "connection" THEN pool
    ELSE get_engine(pool, connection_string, failAt # "engine")

\* close_connections, lines 190-197: every engine of the pool is disposed;
\* no line of main.py calls it
close_connections(pool) == {}

\* lines 60-72 and 88-100: the body of the try
ReadSql(failAt, df) ==
    CASE failAt = "connection" -> Raised("KeyError")
      [] failAt = "engine" -> Raised("EngineError")
      [] failAt = "query" -> Raised("QueryError")
      [] OTHER -> Returned(df)

\* a faulty extract_postgresql whose handler lets the engine's failure go,
\* as _get_engine does at line 46
ExtractPostgresqlReraising(failAt, df) ==
    LET r == ReadSql(failAt, df)
    IN  IF r.kind = "raise" /\ failAt # "engine" THEN Returned(NoneDf) ELSE r

\* DatabaseExtractor.extract_postgresql: whatever goes wrong inside the try
\* (the connection key, the engine, the query) is logged and None returned
extract_postgresql(failAt, df) ==
    LET r == ReadSql(failAt, df)
    IN  IF r.kind = "raise" THEN Returned(NoneDf) ELSE r
\* DatabaseExtractor.extract_mysql: the same body with its own messages
extract_mysql(failAt, df) ==
    LET r == ReadSql(failAt, df)
    IN  IF r.kind = "raise" THEN Returned(NoneDf) ELSE r

\* a call's result together with the engine pool it leaves
WithEngines(r, pool) == [kind |-> r.kind, df |-> r.df, exc |-> r.exc, engines |-> pool]

\* APIExtractor.extract and FileExtractor.extract: a dataset, null, or a failure
\* raised to the caller
ExternalExtract(df) == {Returned(df), Returned(NoneDf), Raised("ExtractError")}

\* the result of lines 119-133 for one source descriptor, df being what the
\* source holds and pool the engines the database extractor has
ExtractorResults(source, df, pool) ==
    LET conn == ConnectionString(source.type)
    IN  IF source.name = MissingKey THEN {WithEngines(Raised("KeyError"), pool)}
        ELSE IF source.type = "<missing>" THEN {WithEngines(Raised("KeyError"), pool)}
        ELSE IF source.type = "postgresql"
        THEN {WithEngines(extract_postgresql(f, df), EnginesAfter(pool, conn, f)) :
                 f \in FailurePointsFor(pool, conn)}
        ELSE IF source.type = "mysql"
        THEN {WithEngines(extract_mysql(f, df), EnginesAfter(pool, conn, f)) :
                 f \in FailurePointsFor(pool, conn)}
        ELSE IF source.type \in {"api", "file"}
        THEN {WithEngines(r, pool) : r \in ExternalExtract(df)}
        ELSE {WithEngines(Raised("ValueError"), pool)}

\* a faulty line 136 that counts a None result as one record
RecordsAfterCountingNone(rp, data) == rp + (IF data.isNone THEN 1 ELSE DfLen(data))

\* line 136: len(data) if data is not None else 0
RecordsAfter(rp, data) == rp + (IF data.isNone THEN 0 ELSE DfLen(data))

\* a faulty stage test that ignores the argument
RunsEveryStage(stageArg, s) == TRUE

\* the test of lines 91, 94 and 97
RunsStage(stageArg, s) == stageArg = StageNone \/ stageArg = s

\* raise outside the per-item handlers: control goes to line 102
Abort(e, where) ==
    /\ exc' = e
    /\ fatalAt' = where
    /\ pc' = "except"

LogEntry(loop, item, outcome, rows) ==
    [loop |-> loop, item |-> item, outcome |-> outcome, rows |-> rows]

\* ------------------------------------------------------------------- Init
\* ETLPipeline.__init__: the fields of a fresh instance
FreshInstance ==
    /\ start_time' = NoneTime
    /\ end_time' = NoneTime
    /\ records_processed' = 0
    /\ errors' = <<>>
    /\ engines' = {}

Idle ==
    /\ pc = "idle"
    /\ stage = StageNone
    /\ runs = 0
    /\ instRuns = 0
    /\ taken = 0
    /\ clock = 0
    /\ start_time = NoneTime
    /\ end_time = NoneTime
    /\ records_processed = 0
    /\ errors = <<>>
    /\ staging = EmptyDir
    /\ output = EmptyDir
    /\ summary_file = NoSummary
    /\ idx = 0
    /\ source_name = Unbound
    /\ extracted_data = <<>>
    /\ staging_data = <<>>
    /\ transformed_data = <<>>
    /\ exc = NoExc
    /\ exit_code = <<>>
    /\ trace = <<>>
    /\ log = <<>>
    /\ itemFailures = 0
    /\ errorsAtStart = 0
    /\ fatalAt = "none"
    /\ summaryWrites = 0
    /\ cleanupFailed = FALSE
    /\ engines = {}
    /\ lastExtracted = EmptyDir
    /\ engineRequests = <<>>
    /\ locals = NoLocals

Init ==
    /\ Idle
    /\ call = NoCall
    /\ ret = NoRet

\* ------------------------------------------------------------ run_pipeline
\* lines 77-85: a call of run_pipeline, by main or by a caller that holds the
\* instance (again after an earlier call returned or raised)
RunPipeline(s) ==
    /\ pc \in {"idle", "returned", "raised"}
    /\ runs < MaxRuns
    /\ pc' = "create_directories"
    /\ stage' = s
    /\ runs' = runs + 1
    /\ instRuns' = instRuns + 1
    /\ start_time' = TimeAt(clock)
    /\ clock' = clock + 1
    /\ exc' = NoExc
    /\ trace' = <<>>
    /\ log' = <<>>
    /\ itemFailures' = 0
    /\ errorsAtStart' = Len(errors)
    /\ fatalAt' = "none"
    /\ summaryWrites' = 0
    /\ cleanupFailed' = FALSE
    /\ UNCHANGED <<end_time, records_processed, errors, exit_code, taken>>
    /\ UNCHANGED <<diskVars, localVars>>
    /\ UNCHANGED <<engines, lastExtracted, fnVars>>

\* line 89: helpers.create_directories, which may fail
CreateDirectories(ok) ==
    /\ pc = "create_directories"
    /\ trace' = Append(trace, "create_directories")
    /\ IF ok
       THEN /\ pc' = "extract"
            /\ UNCHANGED <<exc, fatalAt>>
       ELSE Abort("OSError", "create_directories")
    /\ UNCHANGED <<clock, log, itemFailures, errorsAtStart, summaryWrites, cleanupFailed>>
    /\ UNCHANGED <<loopVars, instanceVars, diskVars, localVars>>
    /\ UNCHANGED <<engines, lastExtracted, fnVars>>

\* -------------------------------------------------------- artifact stores
\* a faulty write that leaves a file alone when it exists already
WriteFilesKeepingOld(dir, files) ==
    LET n == Len(files)
        written == {files[i].k : i \in 1..n}
        FirstOf(f) == CHOOSE i \in 1..n :
                        /\ files[i].k = f
                        /\ \A j \in 1..n : files[j].k = f => i <= j
    IN  [f \in DOMAIN dir \cup written |->
            IF f \in DOMAIN dir THEN dir[f] ELSE files[FirstOf(f)].v]

\* df.to_parquet for every entry of files, a dict from file names to
\* datasets: a later entry overwrites an earlier one of the same name
WriteFiles(dir, files) ==
    LET n == Len(files)
        written == {files[i].k : i \in 1..n}
        LastOf(f) == CHOOSE i \in 1..n :
                        /\ files[i].k = f
                        /\ \A j \in 1..n : files[j].k = f => j <= i
    IN  [f \in DOMAIN dir \cup written |->
            IF f \in written THEN files[LastOf(f)].v ELSE dir[f]]

\* lines 221 and 262: the file each entry of a dict goes to
StagingFiles(data) ==
    [i \in 1..Len(data) |-> [k |-> StagingFile(data[i].k), v |-> data[i].v]]
TransformedFiles(data) ==
    [i \in 1..Len(data) |-> [k |-> TransformedFile(data[i].k), v |-> data[i].v]]

\* lines 219-220: the entries _save_staging_data writes, None skipped
NotNone(data) == SelectSeq(data, LAMBDA e : ~e.v.isNone)

\* lines 225-236 and 266-277: the dicts a load may build from the files that
\* match, one per order in which glob may list them; the logical name is the
\* stem with every occurrence of the suffix removed
RECURSIVE LoadedDicts(_, _, _)
LoadedDicts(dir, files, suffix) ==
    IF files = {} THEN {<<>>}
    ELSE UNION {{DictPut(d, ReplaceAll(Stem(f), suffix), dir[f]) :
                    d \in LoadedDicts(dir, files \ {f}, suffix)} : f \in files}

\* pd.read_parquet is reached once per matching file
LoadRaises(dir, suffix) == GlobSuffix(dir, suffix) # {} /\ ~PandasImported

\* ----------------------------------------------------------- extract stage
\* lines 91-92 and 110-115
ExtractStage ==
    /\ pc = "extract"
    /\ IF RunsStage(stage, "extract")
       THEN /\ pc' = "extract_loop"
            /\ trace' = Append(trace, "extract")
       ELSE /\ pc' = "transform"
            /\ UNCHANGED trace
    /\ idx' = 0
    /\ source_name' = Unbound
    /\ extracted_data' = <<>>
    /\ UNCHANGED <<clock, staging_data, transformed_data, exc, log, itemFailures,
                   errorsAtStart, fatalAt, summaryWrites, cleanupFailed>>
    /\ UNCHANGED <<loopVars, instanceVars, diskVars>>
    /\ UNCHANGED <<engines, lastExtracted, fnVars>>

\* lines 117-143: one iteration of the loop over the declared sources
ExtractItem(source, r) ==
    /\ pc = "extract_loop"
    /\ taken < MaxItems
    /\ taken' = taken + 1
    /\ LET bound == IF source.name = MissingKey THEN source_name ELSE source.name
       IN  /\ source_name' = bound
           /\ engines' = r.engines
           /\ lastExtracted' = IF r.kind = "return" /\ ~r.df.isNone
                               THEN (bound :> r.df) @@ lastExtracted
                               ELSE lastExtracted
           /\ IF r.kind = "return"
              THEN /\ extracted_data' = DictPut(extracted_data, bound, r.df)
                   /\ records_processed' = RecordsAfter(records_processed, r.df)
                   /\ log' = Append(log, LogEntry("extract", source.name,
                                   IF r.df.isNone THEN "null" ELSE "data", DfLen(r.df)))
                   /\ UNCHANGED <<errors, itemFailures, exc, fatalAt, pc>>
              ELSE IF bound = Unbound
              THEN /\ Abort("UnboundLocalError", "extract_handler")
                   /\ log' = Append(log, LogEntry("extract", source.name, "handler_raised", 0))
                   /\ UNCHANGED <<errors, itemFailures, extracted_data, records_processed>>
              ELSE /\ errors' = Append(errors, ErrorEntry("extract", bound))
                   /\ itemFailures' = itemFailures + 1
                   /\ log' = Append(log, LogEntry("extract", source.name, "raised", 0))
                   /\ UNCHANGED <<extracted_data, records_processed, exc, fatalAt, pc>>
    /\ idx' = idx + 1
    /\ UNCHANGED <<clock, start_time, end_time, staging_data, transformed_data, trace,
                   errorsAtStart, summaryWrites, cleanupFailed>>
    /\ UNCHANGED <<callVars, diskVars>>
    /\ UNCHANGED <<fnVars>>

\* lines 145-147 and 214-223: the sources are exhausted and every dataset
\* that is not None is written (the writes themselves are taken to succeed);
\* the stage returns and its locals are gone
SaveStagingData ==
    /\ pc = "extract_loop"
    /\ staging' = WriteFiles(staging, StagingFiles(NotNone(extracted_data)))
    /\ pc' = "transform"
    /\ trace' = Append(trace, "extract_end")
    /\ idx' = 0
    /\ source_name' = Unbound
    /\ extracted_data' = <<>>
    /\ UNCHANGED <<clock, output, summary_file, staging_data, transformed_data, exc, log,
                   itemFailures, errorsAtStart, fatalAt, summaryWrites, cleanupFailed>>
    /\ UNCHANGED <<loopVars, instanceVars>>
    /\ UNCHANGED <<engines, lastExtracted, fnVars>>

\* --------------------------------------------------------- transform stage
\* lines 94-95, 151-158 and _load_staging_data
TransformStage ==
    /\ pc = "transform"
    /\ IF ~RunsStage(stage, "transform")
       THEN /\ pc' = "load"
            /\ UNCHANGED <<trace, staging_data, exc, fatalAt>>
       ELSE /\ trace' = Append(trace, "transform")
            /\ IF LoadRaises(staging, "_staging")
               THEN /\ Abort("NameError", "load_staging")
                    /\ UNCHANGED staging_data
               ELSE /\ staging_data' \in
                           LoadedDicts(staging, GlobSuffix(staging, "_staging"), "_staging")
                    /\ pc' = "transform_loop"
                    /\ UNCHANGED <<exc, fatalAt>>
    /\ idx' = 0
    /\ transformed_data' = <<>>
    /\ UNCHANGED <<clock, source_name, extracted_data, log, itemFailures,
                   errorsAtStart, summaryWrites, cleanupFailed>>
    /\ UNCHANGED <<loopVars, instanceVars, diskVars>>
    /\ UNCHANGED <<engines, lastExtracted, fnVars>>

\* SQLTransformer.execute_query: one dataset, or a failure raised to the caller
ExecuteQuery(df) == {Returned(df), Raised("QueryError")}

\* lines 160-173: one iteration of the loop over the declared queries
TransformItem(r) ==
    /\ pc = "transform_loop"
    /\ taken < MaxItems
    /\ taken' = taken + 1
    /\ LET query_path == QueryPathAt(idx + 1)
           query_name == Stem(query_path)
       IN  IF r.kind = "return"
           THEN /\ transformed_data' = DictPut(transformed_data, query_name, r.df)
                /\ log' = Append(log, LogEntry("transform", query_path, "data", DfLen(r.df)))
                /\ UNCHANGED <<errors, itemFailures>>
           ELSE /\ errors' = Append(errors, ErrorEntry("transform", query_path))
                /\ itemFailures' = itemFailures + 1
                /\ log' = Append(log, LogEntry("transform", query_path, "raised", 0))
                /\ UNCHANGED transformed_data
    /\ idx' = idx + 1
    /\ UNCHANGED <<pc, clock, start_time, end_time, records_processed, source_name,
                   extracted_data, staging_data, exc, trace, errorsAtStart, fatalAt,
                   summaryWrites, cleanupFailed>>
    /\ UNCHANGED <<callVars, diskVars>>
    /\ UNCHANGED <<engines, lastExtracted, fnVars>>

\* DataValidator.validate, as _validate_data sees it: valid, invalid, or raising
ValidationOutcomes == {"valid", "invalid", "raised"}

\* lines 244-254: what the validations append to self.errors, in dict order
ValidationErrors(data, outcomes) ==
    LET Entry(i) == ErrorEntry("validate", data[i].k)
        F[i \in 0..Len(data)] ==
            IF i = 0 THEN <<>>
            ELSE IF outcomes[i] = "valid" THEN F[i - 1] ELSE Append(F[i - 1], Entry(i))
    IN  F[Len(data)]

ValidationLog(data, outcomes) ==
    [i \in 1..Len(data) |-> LogEntry("validate", data[i].k, outcomes[i], DfLen(data[i].v))]

\* lines 175-176 and 238-254: the queries are exhausted, every result is validated
ValidateData(outcomes) ==
    /\ pc = "transform_loop"
    /\ outcomes \in [1..Len(transformed_data) -> ValidationOutcomes]
    /\ errors' = errors \o ValidationErrors(transformed_data, outcomes)
    /\ itemFailures' = itemFailures + Len(ValidationErrors(transformed_data, outcomes))
    /\ log' = log \o ValidationLog(transformed_data, outcomes)
    /\ pc' = "transform_save"
    /\ UNCHANGED <<clock, start_time, end_time, records_processed, exc, trace,
                   errorsAtStart, fatalAt, summaryWrites, cleanupFailed>>
    /\ UNCHANGED <<loopVars, diskVars, localVars>>
    /\ UNCHANGED <<engines, lastExtracted, fnVars>>

\* a faulty save that treats validation as a gate: only the results whose
\* validation passed are written
PassedValidation(data) ==
    SelectSeq(data, LAMBDA e : \E i \in 1..Len(log) :
                                  /\ log[i].loop = "validate"
                                  /\ log[i].item = e.k
                                  /\ log[i].outcome = "valid")

SaveOnlyValidData ==
    /\ pc = "transform_save"
    /\ output' = WriteFiles(output, TransformedFiles(PassedValidation(transformed_data)))
    /\ pc' = "load"
    /\ trace' = Append(trace, "transform_end")
    /\ idx' = 0
    /\ staging_data' = <<>>
    /\ transformed_data' = <<>>
    /\ UNCHANGED <<clock, staging, summary_file, source_name, extracted_data, exc, log,
                   itemFailures, errorsAtStart, fatalAt, summaryWrites, cleanupFailed>>
    /\ UNCHANGED <<loopVars, instanceVars>>
    /\ UNCHANGED <<engines, lastExtracted, fnVars>>

\* lines 178-180 and 256-264: every result is written, valid or not; the
\* stage returns and its locals are gone
SaveTransformedData ==
    /\ pc = "transform_save"
    /\ output' = WriteFiles(output, TransformedFiles(transformed_data))
    /\ pc' = "load"
    /\ trace' = Append(trace, "transform_end")
    /\ idx' = 0
    /\ staging_data' = <<>>
    /\ transformed_data' = <<>>
    /\ UNCHANGED <<clock, staging, summary_file, source_name, extracted_data, exc, log,
                   itemFailures, errorsAtStart, fatalAt, summaryWrites, cleanupFailed>>
    /\ UNCHANGED <<loopVars, instanceVars>>
    /\ UNCHANGED <<engines, lastExtracted, fnVars>>

\* -------------------------------------------------------------- load stage
\* lines 97-98, 184-190 and _load_transformed_data
LoadStage ==
    /\ pc = "load"
    /\ IF ~RunsStage(stage, "load")
       THEN /\ pc' = "summary"
            /\ UNCHANGED <<trace, transformed_data, exc, fatalAt>>
       ELSE /\ trace' = Append(trace, "load")
            /\ IF LoadRaises(output, "_transformed")
               THEN /\ Abort("NameError", "load_transformed")
                    /\ UNCHANGED transformed_data
               ELSE /\ transformed_data' \in
                           LoadedDicts(output, GlobSuffix(output, "_transformed"),
                                       "_transformed")
                    /\ pc' = "load_loop"
                    /\ UNCHANGED <<exc, fatalAt>>
    /\ idx' = 0
    /\ UNCHANGED <<clock, source_name, extracted_data, staging_data, log,
                   itemFailures, errorsAtStart, summaryWrites, cleanupFailed>>
    /\ UNCHANGED <<loopVars, instanceVars, diskVars>>
    /\ UNCHANGED <<engines, lastExtracted, fnVars>>

\* line 197: table_name.replace('fact_', '').replace('dim_', '')
DataKey(table_name) == ReplaceAll(ReplaceAll(table_name, "fact_"), "dim_")

\* a faulty iteration that records a table without data as a failure
LoadItemMissingIsError(loadOk) ==
    /\ pc = "load_loop"
    /\ taken < MaxItems
    /\ taken' = taken + 1
    /\ LET table_name == TargetTableAt(idx + 1)
           data_key == DataKey(table_name)
           outcome == IF data_key \notin DictKeys(transformed_data) THEN "skipped"
                      ELSE IF loadOk THEN "loaded" ELSE "raised"
       IN  /\ errors' = IF outcome \in {"raised", "skipped"}
                        THEN Append(errors, ErrorEntry("load", table_name))
                        ELSE errors
           /\ itemFailures' = itemFailures + (IF outcome \in {"raised", "skipped"} THEN 1 ELSE 0)
           /\ log' = Append(log, LogEntry("load", table_name, outcome, 0))
    /\ idx' = idx + 1
    /\ UNCHANGED <<pc, clock, start_time, end_time, records_processed, source_name,
                   extracted_data, staging_data, transformed_data, exc, trace,
                   errorsAtStart, fatalAt, summaryWrites, cleanupFailed>>
    /\ UNCHANGED <<callVars, diskVars>>
    /\ UNCHANGED <<engines, lastExtracted, fnVars>>

\* lines 192-207: one iteration of the loop over the target tables; loadOk is
\* the outcome of DatabaseLoader.load_table when it is called
LoadItem(loadOk) ==
    /\ pc = "load_loop"
    /\ taken < MaxItems
    /\ taken' = taken + 1
    /\ LET table_name == TargetTableAt(idx + 1)
           data_key == DataKey(table_name)
           outcome == IF data_key \notin DictKeys(transformed_data) THEN "skipped"
                      ELSE IF loadOk THEN "loaded" ELSE "raised"
       IN  /\ errors' = IF outcome = "raised"
                        THEN Append(errors, ErrorEntry("load", table_name))
                        ELSE errors
           /\ itemFailures' = itemFailures + (IF outcome = "raised" THEN 1 ELSE 0)
           /\ log' = Append(log, LogEntry("load", table_name, outcome, 0))
    /\ idx' = idx + 1
    /\ UNCHANGED <<pc, clock, start_time, end_time, records_processed, source_name,
                   extracted_data, staging_data, transformed_data, exc, trace,
                   errorsAtStart, fatalAt, summaryWrites, cleanupFailed>>
    /\ UNCHANGED <<callVars, diskVars>>
    /\ UNCHANGED <<engines, lastExtracted, fnVars>>

\* a faulty report step without the try of lines 281-288: a failure of
\* ExcelLoader.generate_reports leaves the load stage
GenerateExcelReportsUnguarded(reportOk) ==
    /\ pc = "load_loop"
    /\ log' = Append(log, LogEntry("report", <<>>, IF reportOk THEN "data" ELSE "raised", 0))
    /\ trace' = Append(trace, "load_end")
    /\ IF reportOk
       THEN /\ pc' = "summary"
            /\ UNCHANGED <<exc, fatalAt>>
       ELSE Abort("ReportError", "report")
    /\ idx' = 0
    /\ transformed_data' = <<>>
    /\ UNCHANGED <<clock, start_time, end_time, records_processed, errors, source_name,
                   extracted_data, staging_data, itemFailures, errorsAtStart,
                   summaryWrites, cleanupFailed>>
    /\ UNCHANGED <<loopVars, diskVars>>
    /\ UNCHANGED <<engines, lastExtracted, fnVars>>

\* lines 209-212 and 279-288: the tables are exhausted, the workbook is rendered;
\* reportOk is the outcome of ExcelLoader.generate_reports
GenerateExcelReports(reportOk) ==
    /\ pc = "load_loop"
    /\ errors' = IF reportOk THEN errors
                 ELSE Append(errors, ErrorEntry("report", <<>>))
    /\ itemFailures' = itemFailures + (IF reportOk THEN 0 ELSE 1)
    /\ log' = Append(log, LogEntry("report", <<>>, IF reportOk THEN "data" ELSE "raised", 0))
    /\ pc' = "summary"
    /\ trace' = Append(trace, "load_end")
    /\ idx' = 0
    /\ transformed_data' = <<>>
    /\ UNCHANGED <<clock, start_time, end_time, records_processed, source_name,
                   extracted_data, staging_data, exc, errorsAtStart, fatalAt,
                   summaryWrites, cleanupFailed>>
    /\ UNCHANGED <<loopVars, diskVars>>
    /\ UNCHANGED <<engines, lastExtracted, fnVars>>

\* ------------------------------------------------- summary, except, finally
\* lines 294-302: the summary document
Summary ==
    [present |-> TRUE,
     start_time |-> start_time,
     end_time |-> end_time,
     duration_seconds |-> end_time.t - start_time.t,
     records_processed |-> records_processed,
     errors_count |-> Len(errors),
     errors |-> errors,
     status |-> IF Len(errors) = 0 THEN "SUCCESS" ELSE "FAILED"]

\* line 292: self.end_time - self.start_time raises while end_time is None,
\* which it is until a finally block has run on this instance
DurationRaises == end_time.isNone \/ start_time.isNone

\* lines 100 and 290-310 (the write itself is taken to succeed)
GenerateSummaryReport ==
    /\ pc = "summary"
    /\ trace' = Append(trace, "summary")
    /\ IF DurationRaises
       THEN /\ Abort("TypeError", "summary_duration")
            /\ UNCHANGED <<summary_file, summaryWrites>>
       ELSE /\ summary_file' = Summary
            /\ summaryWrites' = summaryWrites + 1
            /\ pc' = "finally"
            /\ UNCHANGED <<exc, fatalAt>>
    /\ UNCHANGED <<clock, staging, output, log, itemFailures, errorsAtStart,
                   cleanupFailed>>
    /\ UNCHANGED <<loopVars, instanceVars, localVars>>
    /\ UNCHANGED <<engines, lastExtracted, fnVars>>

\* a faulty handler that raises again without recording the exception
ExceptWithoutRecord ==
    /\ pc = "except"
    /\ pc' = "finally"
    /\ idx' = 0
    /\ source_name' = Unbound
    /\ extracted_data' = <<>>
    /\ staging_data' = <<>>
    /\ transformed_data' = <<>>
    /\ UNCHANGED <<clock, start_time, end_time, records_processed, errors, exc>>
    /\ UNCHANGED <<loopVars, diskVars, historyVars>>
    /\ UNCHANGED <<engines, lastExtracted, fnVars>>

\* lines 102-105: the exception is recorded and raised again; the frame of
\* the stage it came from is gone
Except ==
    /\ pc = "except"
    /\ errors' = Append(errors, ErrorEntry("run_pipeline", <<exc>>))
    /\ pc' = "finally"
    /\ idx' = 0
    /\ source_name' = Unbound
    /\ extracted_data' = <<>>
    /\ staging_data' = <<>>
    /\ transformed_data' = <<>>
    /\ UNCHANGED <<clock, start_time, end_time, records_processed, exc>>
    /\ UNCHANGED <<loopVars, diskVars, historyVars>>
    /\ UNCHANGED <<engines, lastExtracted, fnVars>>

\* a faulty finally block whose cleanup lets its own exception escape
FinallyCleanupRaises(cleanupOk) ==
    /\ pc = "finally"
    /\ end_time' = TimeAt(clock)
    /\ clock' = clock + 1
    /\ cleanupFailed' = ~cleanupOk
    /\ trace' = Append(trace, "cleanup")
    /\ pc' = IF exc = NoExc /\ cleanupOk THEN "returned" ELSE "raised"
    /\ UNCHANGED <<start_time, records_processed, errors, exc, log, itemFailures,
                   errorsAtStart, fatalAt, summaryWrites>>
    /\ UNCHANGED <<loopVars, diskVars, localVars>>
    /\ UNCHANGED <<engines, lastExtracted, fnVars>>

\* lines 106-108 and 312-318: cleanupOk is the outcome of cleanup_temp_files,
\* whose exception _cleanup logs and drops
Finally(cleanupOk) ==
    /\ pc = "finally"
    /\ end_time' = TimeAt(clock)
    /\ clock' = clock + 1
    /\ cleanupFailed' = ~cleanupOk
    /\ trace' = Append(trace, "cleanup")
    /\ pc' = IF exc = NoExc THEN "returned" ELSE "raised"
    /\ UNCHANGED <<start_time, records_processed, errors, exc, log, itemFailures,
                   errorsAtStart, fatalAt, summaryWrites>>
    /\ UNCHANGED <<loopVars, diskVars, localVars>>
    /\ UNCHANGED <<engines, lastExtracted, fnVars>>

\* --------------------------------------------------------------------- CLI
ExitSuccess == 0
ExitFailure == 1

\* lines 331-340: main made the instance and called run_pipeline once; the
\* process ends and its instance with it
MainExit ==
    /\ pc \in {"returned", "raised"}
    /\ instRuns = 1
    /\ exit_code' = IF pc = "raised" THEN <<ExitFailure>> ELSE <<ExitSuccess>>
    /\ pc' = "exited"
    /\ FreshInstance
    /\ trace' = <<>>
    /\ log' = <<>>
    /\ errorsAtStart' = 0
    /\ cleanupFailed' = FALSE
    /\ UNCHANGED <<stage, runs, instRuns, taken, clock, exc, itemFailures, fatalAt,
                   summaryWrites>>
    /\ UNCHANGED <<diskVars, localVars>>
    /\ UNCHANGED <<lastExtracted, fnVars>>

\* lines 34-53: a new process builds a new instance over the same directories
Construct ==
    /\ pc = "exited"
    /\ runs < MaxRuns
    /\ FreshInstance
    /\ pc' = "idle"
    /\ stage' = StageNone
    /\ instRuns' = 0
    /\ exit_code' = <<>>
    /\ exc' = NoExc
    /\ itemFailures' = 0
    /\ fatalAt' = "none"
    /\ summaryWrites' = 0
    /\ UNCHANGED <<runs, taken, clock, trace, log, errorsAtStart, cleanupFailed>>
    /\ UNCHANGED <<diskVars, localVars>>
    /\ UNCHANGED <<lastExtracted, fnVars>>

Next ==
    \/ \E s \in StageArgs : RunPipeline(s)
    \/ \E ok \in BOOLEAN : CreateDirectories(ok)
    \/ ExtractStage
    \/ /\ pc = "extract_loop"
       /\ \E source \in SourceDescriptors(idx + 1) :
            \E r \in ExtractorResults(source, SourceData(idx + 1, runs), engines) :
                ExtractItem(source, r)
    \/ SaveStagingData
    \/ TransformStage
    \/ /\ pc = "transform_loop"
       /\ \E r \in ExecuteQuery(QueryData(idx + 1)) : TransformItem(r)
    \/ \E outcomes \in [1..Len(transformed_data) -> ValidationOutcomes] :
          ValidateData(outcomes)
    \/ SaveTransformedData
    \/ LoadStage
    \/ \E loadOk \in BOOLEAN : LoadItem(loadOk)
    \/ \E reportOk \in BOOLEAN : GenerateExcelReports(reportOk)
    \/ GenerateSummaryReport
    \/ Except
    \/ \E cleanupOk \in BOOLEAN : Finally(cleanupOk)
    \/ MainExit
    \/ Construct

Spec == Init /\ [][Next]_vars

\* ------------------------------------------------- single function calls
\* The functions below are also checked one call at a time, over inputs the
\* pipeline's configuration above does not range over: the pipeline stays
\* idle, call holds the function and its arguments, ret what the call gave.
runVars ==
    <<pc, stage, runs, instRuns, taken, clock, start_time, end_time, records_processed,
      errors, summary_file, idx, source_name, extracted_data, staging_data,
      transformed_data, exc, exit_code, trace, log, itemFailures, errorsAtStart, fatalAt,
      summaryWrites, cleanupFailed, lastExtracted>>
pipelineVars == <<runVars, engines>>

FnReturned(v) == [kind |-> "return", v |-> v]
FnRaised(e) == [kind |-> "raise", exc |-> e]

\* every sequence of at most n tokens, and every non-empty one
RECURSIVE TokenSeqs(_, _)
TokenSeqs(tokens, n) ==
    IF n = 0 THEN {<<>>}
    ELSE LET shorter == TokenSeqs(tokens, n - 1)
         IN  shorter \cup {Append(q, t) : q \in shorter, t \in tokens}
Names(tokens, n) == TokenSeqs(tokens, n) \ {<<>>}

\* logical names given to a store, some of them containing a stage suffix
StoreNames == Names({"orders", "daily", "_staging", "_transformed"}, MaxNameTokens)
StoreEntries == [k : StoreNames, v : {Df(1), Df(2)}]
\* a mapping of one or two distinct logical names to datasets
StoreMappings ==
    {<<e>> : e \in StoreEntries}
        \cup {<<p[1], p[2]>> : p \in {q \in StoreEntries \X StoreEntries : q[1].k # q[2].k}}
StoreCalls == [fn : {"staging_store", "output_store"}, data : StoreMappings]

\* _save_staging_data / _save_transformed_data into the empty directory
SaveStore ==
    /\ call.fn \in {"staging_store", "output_store"}
    /\ ret = NoRet
    /\ IF call.fn = "staging_store"
       THEN /\ staging' = WriteFiles(staging, StagingFiles(NotNone(call.data)))
            /\ UNCHANGED output
       ELSE /\ output' = WriteFiles(output, TransformedFiles(call.data))
            /\ UNCHANGED staging
    /\ ret' = [kind |-> "saved"]
    /\ UNCHANGED <<call, locals, engineRequests, pipelineVars>>

\* the directory and the suffix of the store a call is about
StoreDir == IF call.fn = "staging_store" THEN staging ELSE output
StoreSuffix == IF call.fn = "staging_store" THEN "_staging" ELSE "_transformed"

\* _load_staging_data / _load_transformed_data right after the save
LoadStore ==
    /\ call.fn \in {"staging_store", "output_store"}
    /\ ret.kind = "saved"
    /\ IF LoadRaises(StoreDir, StoreSuffix)
       THEN ret' = FnRaised("NameError")
       ELSE \E d \in LoadedDicts(StoreDir, GlobSuffix(StoreDir, StoreSuffix), StoreSuffix) :
               ret' = FnReturned(d)
    /\ UNCHANGED <<call, locals, engineRequests, staging, output, pipelineVars>>

\* target table names, with the prefixes anywhere in them
TableNames == Names({"fact_", "dim_", "sales"}, MaxNameTokens)
DataKeyCalls == [fn : {"data_key"}, table_name : TableNames]

\* line 197 for one table name
ApplyDataKey ==
    /\ call.fn = "data_key"
    /\ ret = NoRet
    /\ ret' = FnReturned(DataKey(call.table_name))
    /\ UNCHANGED <<call, locals, engineRequests, staging, output, pipelineVars>>

\* calls of the two database extractors on a fresh DatabaseExtractor
ExtractCalls ==
    [fn : {"extract_postgresql", "extract_mysql"}, failAt : FailurePoints,
     df : {Df(0), Df(1), Df(2)}]

\* one call of extract_postgresql or extract_mysql
ApplyExtract ==
    /\ call.fn \in {"extract_postgresql", "extract_mysql"}
    /\ ret = NoRet
    /\ ret' = IF call.fn = "extract_postgresql"
              THEN extract_postgresql(call.failAt, call.df)
              ELSE extract_mysql(call.failAt, call.df)
    /\ engines' = EnginesAfter(engines,
                               ConnectionString(IF call.fn = "extract_postgresql"
                                                THEN "postgresql" ELSE "mysql"),
                               call.failAt)
    /\ UNCHANGED <<call, locals, engineRequests, staging, output, runVars>>

\* ---- Config.get (src/utils/config.py)
\* a key is a string, held as a sequence of tokens of which "." is the separator
MaxKeyTokens == 3
ConfigKeys == TokenSeqs({"a", "b", "."}, MaxKeyTokens)

\* a configuration value: a mapping from strings to values, or a value that
\* is no mapping (a string, a list, None)
Scalar(type) == [kind |-> type, items |-> <<>>]
Mapping(items) == [kind |-> "map", items |-> items]
MapKeys == {<<"a">>, <<"b">>}
Scalars == {Scalar("str"), Scalar("list"), Scalar("none")}
MappingsOf(values) == {Mapping(f) : f \in UNION {[S -> values] : S \in SUBSET MapKeys}}
\* what _load_config can give, nested at most twice: None at the top level
\* is replaced by the empty mapping (line 33)
ConfigTrees ==
    MappingsOf(Scalars \cup MappingsOf(Scalars)) \cup {Scalar("str"), Scalar("list")}
ConfigDefaults == {Scalar("none"), Scalar("str")}

\* key.split('.'): the segments between the separators, empty ones included
RECURSIVE Split(_)
Split(key) ==
    IF \A i \in 1..Len(key) : key[i] # "."
    THEN <<key>>
    ELSE LET i == CHOOSE j \in 1..Len(key) :
                      key[j] = "." /\ \A h \in 1..(j - 1) : key[h] # "."
         IN  <<SubSeq(key, 1, i - 1)>> \o Split(SubSeq(key, i + 1, Len(key)))

\* value[k] with a string k: KeyError when a mapping lacks k, TypeError when
\* value is a string, a list or None
Subscript(value, k) ==
    IF value.kind = "map"
    THEN IF k \in DOMAIN value.items
         THEN FnReturned(value.items[k])
         ELSE FnRaised("KeyError")
    ELSE FnRaised("TypeError")

\* the loop of lines 65-66
RECURSIVE Follow(_, _)
Follow(value, keys) ==
    IF keys = <<>>
    THEN FnReturned(value)
    ELSE LET r == Subscript(value, Head(keys))
         IN  IF r.kind = "raise" THEN r ELSE Follow(r.v, Tail(keys))

\* a Config.get whose handler names KeyError only
ConfigGetCatchingKeyErrorOnly(config_data, key, default) ==
    LET r == Follow(config_data, Split(key))
    IN  IF r.kind = "raise" /\ r.exc = "KeyError" THEN FnReturned(default) ELSE r

\* Config.get, lines 61-69
Config_get(config_data, key, default) ==
    LET r == Follow(config_data, Split(key))
    IN  IF r.kind = "raise" /\ r.exc \in {"KeyError", "TypeError"}
        THEN FnReturned(default)
        ELSE r

ConfigGetCalls ==
    [fn : {"config_get"}, config_data : ConfigTrees, key : ConfigKeys,
     default : ConfigDefaults]

\* one call of Config.get
ApplyConfigGet ==
    /\ call.fn = "config_get"
    /\ ret = NoRet
    /\ ret' = Config_get(call.config_data, call.key, call.default)
    /\ UNCHANGED <<call, locals, engineRequests, staging, output, pipelineVars>>

FnCalls == StoreCalls \cup DataKeyCalls \cup ExtractCalls \cup ConfigGetCalls

FnInit ==
    /\ Idle
    /\ call \in FnCalls
    /\ ret = NoRet

FnNext ==
    \/ SaveStore
    \/ LoadStore
    \/ ApplyDataKey
    \/ ApplyExtract
    \/ ApplyConfigGet

FnSpec == FnInit /\ [][FnNext]_vars

\* ---- one DatabaseExtractor taking extraction calls one after the other
MaxRequests == 4
ConnectionStrings == {ConnectionString(t) : t \in {"postgresql", "mysql"}}

\* one call of extract_postgresql or extract_mysql for a source whose
\* connection string is connection_string
ExtractorCall(connection_string, failAt) ==
    /\ Len(engineRequests) < MaxRequests
    /\ failAt \in FailurePointsFor(engines, connection_string)
    /\ engines' = EnginesAfter(engines, connection_string, failAt)
    /\ engineRequests' =
           Append(engineRequests,
                  [connection_string |-> connection_string,
                   event |-> EngineEvent(engines, connection_string, failAt),
                   before |-> engines,
                   after |-> engines'])
    /\ UNCHANGED <<call, ret, locals, staging, output, runVars>>

ExtractorNext ==
    \E connection_string \in ConnectionStrings, failAt \in FailurePoints :
        ExtractorCall(connection_string, failAt)

ExtractorSpec == Init /\ [][ExtractorNext]_vars

\* ---- extract_with_chunking (database_extractor.py, lines 141-188)
MaxRows == 4
MaxChunkSize == 3
MaxFailPage == 2

\* a DataFrame with its rows in order, and None
Frame(rows) == [isNone |-> FALSE, rows |-> rows]
NoneFrame == [isNone |-> TRUE, rows |-> <<>>]

\* "<query> LIMIT chunk_size OFFSET offset" on a table of n rows numbered
\* in their stable order
Page(n, chunk_size, offset) ==
    LET avail == IF n > offset THEN n - offset ELSE 0
        len == IF chunk_size < avail THEN chunk_size ELSE avail
    IN  [i \in 1..len |-> offset + i]

\* pd.concat(chunks, ignore_index=True)
RECURSIVE Concat(_)
Concat(chunks) == IF chunks = <<>> THEN <<>> ELSE Head(chunks) \o Concat(Tail(chunks))

\* a faulty end of extract_with_chunking that gives None when no page had rows
ChunkResultNullWhenEmpty(chunks) ==
    IF chunks # <<>> THEN Frame(Concat(chunks)) ELSE NoneFrame

\* lines 178-184: the pages combined, or an empty DataFrame
ChunkResult(chunks) ==
    IF chunks # <<>> THEN Frame(Concat(chunks)) ELSE Frame(<<>>)

\* a call: the table has n rows; failAt names where the call fails, and a
\* failing query is the failPage-th pd.read_sql of the call
ChunkCalls ==
    [fn : {"extract_with_chunking"}, n : 0..MaxRows, chunk_size : 0..MaxChunkSize,
     failAt : {"none", "connection", "engine"}, failPage : {0}]
        \cup [fn : {"extract_with_chunking"}, n : 0..MaxRows,
              chunk_size : 0..MaxChunkSize, failAt : {"query"}, failPage : 1..MaxFailPage]

\* lines 153-163: up to the loop; a failure is logged and None returned
\* (lines 186-188)
ChunkStart ==
    /\ call.fn = "extract_with_chunking"
    /\ ret = NoRet
    /\ locals = NoLocals
    /\ engines' = EnginesAfter(engines, ConnectionString("postgresql"), call.failAt)
    /\ IF call.failAt \in {"connection", "engine"}
       THEN /\ ret' = FnReturned(NoneFrame)
            /\ UNCHANGED locals
       ELSE /\ locals' = [pc |-> "loop", chunks |-> <<>>, offset |-> 0, requested |-> <<>>]
            /\ UNCHANGED ret
    /\ UNCHANGED <<call, engineRequests, staging, output, runVars>>

\* lines 165-175, one turn of the loop, and lines 177-184 after the break
ChunkRead ==
    /\ call.fn = "extract_with_chunking"
    /\ ret = NoRet
    /\ locals # NoLocals
    /\ LET chunk_df == Page(call.n, call.chunk_size, locals.offset)
           requested == Append(locals.requested, locals.offset)
       IN  IF call.failAt = "query" /\ Len(requested) = call.failPage
           THEN /\ ret' = FnReturned(NoneFrame)
                /\ locals' = [locals EXCEPT !.requested = requested]
           ELSE IF chunk_df = <<>>
           THEN /\ ret' = FnReturned(ChunkResult(locals.chunks))
                /\ locals' = [locals EXCEPT !.requested = requested]
           ELSE /\ locals' = [locals EXCEPT !.chunks = Append(@, chunk_df),
                                             !.offset = @ + call.chunk_size,
                                             !.requested = requested]
                /\ UNCHANGED ret
    /\ UNCHANGED <<call, engineRequests, staging, output, pipelineVars>>

ChunkInit ==
    /\ Idle
    /\ call \in ChunkCalls
    /\ ret = NoRet

ChunkNext ==
    \/ ChunkStart
    \/ ChunkRead

\* the call runs on one thread, which takes its next step whenever it has one
ChunkingSpec == ChunkInit /\ [][ChunkNext]_vars /\ WF_vars(ChunkNext)

\* ------------------------------------------------------------- properties
Ended == pc \in {"returned", "raised"}

\* the entries this call of run_pipeline has appended
RunErrors == SubSeq(errors, errorsAtStart + 1, Len(errors))

FatalEntries(es) == SelectSeq(es, LAMBDA e : e.at = "run_pipeline")

Count(seq, x) == Cardinality({i \in 1..Len(seq) : seq[i] = x})

IsPrefix(a, b) == Len(a) <= Len(b) /\ SubSeq(b, 1, Len(a)) = a

Last(seq) == seq[Len(seq)]

\* no exception left a stage: the summary step was reached, and either it
\* completed or the exception is the one it raised itself
ReachedSummary == fatalAt \in {"none", "summary_duration"}

StageEventNames ==
    {"extract", "extract_end", "transform", "transform_end", "load", "load_end", "summary"}

StageEvents == SelectSeq(trace, LAMBDA e : e \in StageEventNames)

ExpectedEvents(stageArg) ==
    IF stageArg = StageNone
    THEN <<"extract", "extract_end", "transform", "transform_end", "load", "load_end",
           "summary">>
    ELSE <<stageArg, stageArg \o "_end", "summary">>

LogOf(loop, outcome) ==
    SelectSeq(log, LAMBDA l : l.loop = loop /\ l.outcome = outcome)

RECURSIVE SumRows(_)
SumRows(entries) ==
    IF entries = <<>> THEN 0 ELSE Head(entries).rows + SumRows(Tail(entries))

\* the exception each abort point raises
ExcRaisedAt(where) ==
    CASE where = "create_directories" -> "OSError"
      [] where = "extract_handler" -> "UnboundLocalError"
      [] where \in {"load_staging", "load_transformed"} -> "NameError"
      [] where = "summary_duration" -> "TypeError"
      [] OTHER -> NoExc

\* C1: every call of run_pipeline in which no exception leaves a stage has
\* written the summary report exactly once by the time the call ends.
C1_SummaryWrittenOnce ==
    (Ended /\ ReachedSummary) => summaryWrites = 1

\* C2: a call on a fresh instance in which no item fails returns normally,
\* leaves errors empty and has written a summary whose status is SUCCESS.
C2_CleanRunSucceeds ==
    (Ended /\ instRuns = 1 /\ itemFailures = 0 /\ ReachedSummary)
        => /\ pc = "returned"
           /\ errors = <<>>
           /\ summary_file.present
           /\ summary_file.status = "SUCCESS"

\* C3: a call in which only items fail still writes the summary, returns
\* normally, and the summary's status is FAILED.
C3_ItemFailuresStillReturn ==
    (Ended /\ instRuns = 1 /\ itemFailures > 0 /\ ReachedSummary)
        => /\ pc = "returned"
           /\ summaryWrites = 1
           /\ summary_file.status = "FAILED"
           /\ summary_file.errors_count = itemFailures

\* C4: a failure of a named item appends one entry and does not leave its
\* loop, and once the extract stage has saved its data the transform stage's
\* staging load returns the dataset of every source that succeeded.
C4_ItemIsolationAndStagedData ==
    /\ Len(RunErrors) - Len(FatalEntries(RunErrors)) = itemFailures
    /\ fatalAt # "load_staging"
    /\ (pc = "transform_loop" /\ Count(trace, "extract_end") = 1)
          => \A i \in 1..Len(log) :
                (log[i].loop = "extract" /\ log[i].outcome = "data")
                   => /\ log[i].item \in DictKeys(staging_data)
                      /\ DfLen(DictValue(staging_data, log[i].item)) = log[i].rows

\* C5: an exception raised outside the per-item handlers is recorded in
\* errors exactly once, no stage is started after it, cleanup runs and the
\* same exception leaves run_pipeline.
C5_FatalRecordedThenRaised ==
    /\ fatalAt # "none" => pc \in {"except", "finally", "raised", "exited"}
    /\ (pc \in {"finally", "raised"} /\ fatalAt # "none")
          => /\ Len(FatalEntries(RunErrors)) = 1
             /\ Last(errors) = ErrorEntry("run_pipeline", <<ExcRaisedAt(fatalAt)>>)
    /\ pc \in {"finally", "returned"} /\ fatalAt = "none"
          => FatalEntries(RunErrors) = <<>>
    /\ pc = "raised"
          => /\ fatalAt # "none"
             /\ exc = ExcRaisedAt(fatalAt)
             /\ Last(trace) = "cleanup"

C5_Witness ==
    /\ pc = "raised"
    /\ fatalAt = "create_directories"
    /\ errors = <<ErrorEntry("run_pipeline", <<"OSError">>)>>
    /\ trace = <<"create_directories", "cleanup">>

\* C6: cleanup runs exactly once, as the last step of the call, and its own
\* failure neither changes how the call ends nor adds an entry to errors.
C6_CleanupOnceAndIsolated ==
    /\ Ended => (Count(trace, "cleanup") = 1 /\ Last(trace) = "cleanup")
    /\ pc \notin {"returned", "raised", "exited", "idle"} => Count(trace, "cleanup") = 0
    /\ Ended => (pc = "raised" <=> fatalAt # "none")
    /\ Ended => Len(RunErrors) = itemFailures + (IF fatalAt = "none" THEN 0 ELSE 1)

C6_Witness ==
    /\ pc = "returned"
    /\ cleanupFailed
    /\ Last(trace) = "cleanup"
    /\ RunErrors = <<>>

\* C7: the stages run in the order extract, transform, load, then the
\* summary; with a stage argument only that stage runs before the summary.
C7_StageOrder ==
    /\ IsPrefix(StageEvents, ExpectedEvents(stage))
    /\ (Ended /\ ReachedSummary) => StageEvents = ExpectedEvents(stage)

C7_Witness ==
    /\ Ended
    /\ stage = StageNone
    /\ StageEvents = ExpectedEvents(StageNone)

\* C8: the command-line entry point exits with status 0 when no exception
\* left a stage of its run.
C8_ExitZeroWithoutFatal ==
    (pc = "exited" /\ ReachedSummary) => exit_code = <<ExitSuccess>>

\* C9: every extraction that returned null has exactly one entry in errors
\* naming its source.
C9_NullExtractionRecorded ==
    \A i \in 1..Len(log) :
        (log[i].loop = "extract" /\ log[i].outcome = "null")
            => Count(RunErrors, ErrorEntry("extract", log[i].item)) = 1

\* C10: on a fresh instance records_processed is the sum of the row counts
\* of the datasets the extractions returned; a null result adds no rows and
\* no entry to errors.
C10_RecordsProcessedIsRowSum ==
    instRuns <= 1
        => /\ records_processed = SumRows(LogOf("extract", "data"))
           /\ Len(SelectSeq(errors, LAMBDA e : e.at = "extract"))
                 = Len(LogOf("extract", "raised"))

C10_Witness ==
    /\ pc = "transform"
    /\ Count(trace, "extract_end") = 1
    /\ Len(LogOf("extract", "data")) = 2
    /\ Len(LogOf("extract", "null")) = 1
    /\ records_processed = 25
    /\ errors = <<>>

\* C11: once the transform stage has saved, the output artifact of every
\* dataset a transformation returned holds that dataset unchanged, whatever
\* its validation gave; a validation that fails or raises has appended
\* exactly one entry for its dataset and a passing one none.
C11_ValidationNeverGatesSave ==
    Count(trace, "transform_end") = 1
        => /\ \A i \in 1..Len(log) :
                 log[i].loop = "transform" /\ log[i].outcome = "data"
                    => /\ TransformedFile(Stem(log[i].item)) \in DOMAIN output
                       /\ output[TransformedFile(Stem(log[i].item))] = Df(log[i].rows)
                       /\ Len(LogOf("validate", "valid") \o LogOf("validate", "invalid")
                              \o LogOf("validate", "raised")) = Len(LogOf("transform", "data"))
           /\ \A i \in 1..Len(log) :
                 log[i].loop = "validate"
                    => /\ output[TransformedFile(log[i].item)] = Df(log[i].rows)
                       /\ Count(RunErrors, ErrorEntry("validate", log[i].item))
                             = IF log[i].outcome = "valid" THEN 0 ELSE 1

C11_Witness ==
    /\ Count(trace, "transform_end") = 1
    /\ Len(LogOf("validate", "invalid")) = 1
    /\ Len(LogOf("validate", "raised")) = 1
    /\ \A i \in 1..Len(log) :
          log[i].loop = "validate" => TransformedFile(log[i].item) \in DOMAIN output
    /\ Len(SelectSeq(RunErrors, LAMBDA e : e.at = "validate")) = 2
\* C12: while the transform stage is the last stage entered, the datasets it
\* works on are the ones reloaded from the staging artifacts on disk, and
\* while the load stage is, the ones reloaded from the output artifacts.
C12_StagesWorkOnReloadedData ==
    /\ (trace # <<>> /\ Last(trace) = "transform")
          => staging_data \in
                LoadedDicts(staging, GlobSuffix(staging, "_staging"), "_staging")
    /\ (trace # <<>> /\ Last(trace) = "load")
          => transformed_data \in
                LoadedDicts(output, GlobSuffix(output, "_transformed"), "_transformed")
\* C13: outside the extract loop the staging directory holds, for every
\* source name that has ever been extracted successfully, the dataset of
\* its latest successful extraction, and no artifact for any other name.
C13_StagingHoldsLatestSuccess ==
    pc # "extract_loop"
        => /\ \A name \in DOMAIN lastExtracted :
                 /\ StagingFile(name) \in DOMAIN staging
                 /\ staging[StagingFile(name)] = lastExtracted[name]
           /\ \A f \in DOMAIN staging :
                 \E name \in DOMAIN lastExtracted : f = StagingFile(name)

C13_Witness ==
    /\ pc = "transform"
    /\ runs = 2
    /\ StagingFile(SourceNameAt(1)) \in DOMAIN staging
    /\ staging[StagingFile(SourceNameAt(1))] = SourceData(1, 2)
    /\ StagingFile(SourceNameAt(2)) \notin DOMAIN staging
    /\ \E i \in 1..Len(log) :
          /\ log[i].loop = "extract"
          /\ log[i].item = SourceNameAt(2)
          /\ log[i].outcome \in {"null", "raised"}
\* C14: saving a mapping of distinct logical names into an empty store and
\* loading all artifacts gives back the same names with the same datasets:
\* each artifact written yields on load the logical name it was saved
\* under, and the load returns the mapping that was saved.
DictItems(d) == {<<d[i].k, d[i].v>> : i \in 1..Len(d)}

C14_SaveThenLoadRoundTrip ==
    /\ (call.fn \in {"staging_store", "output_store"} /\ ret.kind = "saved")
          => {ReplaceAll(Stem(f), StoreSuffix) : f \in GlobSuffix(StoreDir, StoreSuffix)}
                = DictKeys(call.data)
    /\ (call.fn \in {"staging_store", "output_store"} /\ ret.kind \in {"return", "raise"})
          => /\ ret.kind = "return"
             /\ DictItems(ret.v) = DictItems(call.data)
\* C15: the dataset name looked up for a target table is the table name
\* without a leading fact_ or dim_, and the table name itself when it starts
\* with neither.
WithoutLeadingPrefix(table_name) ==
    IF Head(table_name) \in {"fact_", "dim_"} THEN Tail(table_name) ELSE table_name

C15_DataKeyStripsLeadingPrefix ==
    (call.fn = "data_key" /\ ret.kind = "return")
        => ret.v = WithoutLeadingPrefix(call.table_name)
\* C16: a target table whose dataset name is not among the loaded
\* transformed datasets is skipped: no load call is made for it, no entry
\* is appended to errors, and the loop goes on to the next table.
LoadLog == SelectSeq(log, LAMBDA l : l.loop = "load")

C16_MissingDatasetSkipsTable ==
    /\ pc = "load_loop"
          => /\ Len(LoadLog) = idx
             /\ \A i \in 1..Len(LoadLog) :
                   /\ LoadLog[i].item = TargetTableAt(i)
                   /\ DataKey(LoadLog[i].item) \notin DictKeys(transformed_data)
                         => LoadLog[i].outcome = "skipped"
    /\ \A i \in 1..Len(LoadLog) :
          LoadLog[i].outcome = "skipped"
             => Count(RunErrors, ErrorEntry("load", LoadLog[i].item)) = 0

C16_Witness ==
    /\ pc = "load_loop"
    /\ Len(LoadLog) = 2
    /\ \A i \in 1..2 : LoadLog[i].outcome = "skipped"
    /\ RunErrors = <<>>

\* C17: the report step runs exactly once in a load stage, after every
\* table of the loop; its failure appends exactly one entry to errors and
\* the run goes on to the summary step.
ReportLog == SelectSeq(log, LAMBDA l : l.loop = "report")

C18_DatabaseExtractorsNeverRaise ==
    (call.fn \in {"extract_postgresql", "extract_mysql"} /\ ret # NoRet)
        => /\ ret.kind = "return"
           /\ ret.exc = NoExc
           /\ ret.df = IF call.failAt = "none" THEN call.df ELSE NoneDf

C18_Witness ==
    /\ call.fn = "extract_postgresql"
    /\ call.failAt = "engine"
    /\ ret = Returned(NoneDf)
    /\ engines = {}

\* C19: when a call of run_pipeline has ended, no engine made by the
\* database extractor is left undisposed.
C19_EnginesReleasedAtShutdown ==
    Ended => engines = {}
\* the n-th segment of a key, found from the positions of its separators
DotsOf(key) == {i \in 1..Len(key) : key[i] = "."}
SegmentEdge(key, n) ==
    IF n = 0 THEN 0
    ELSE IF n > Cardinality(DotsOf(key)) THEN Len(key) + 1
    ELSE CHOOSE i \in DotsOf(key) : Cardinality({j \in DotsOf(key) : j < i}) = n - 1
Segment(key, n) == SubSeq(key, SegmentEdge(key, n - 1) + 1, SegmentEdge(key, n) - 1)
Unresolved == [kind |-> "unresolved", items |-> <<>>]

\* C20: Config.get returns the value reached by following the segments of
\* the key through the nested mappings when every segment resolves; when a
\* segment is absent or an intermediate value is no mapping it returns the
\* default and does not raise.
C20_ConfigGetFollowsOrDefaults ==
    (call.fn = "config_get" /\ ret # NoRet)
        => LET n == Cardinality(DotsOf(call.key)) + 1
               node[i \in 0..n] ==
                   IF i = 0 THEN call.config_data
                   ELSE IF /\ node[i - 1].kind = "map"
                           /\ Segment(call.key, i) \in DOMAIN node[i - 1].items
                        THEN node[i - 1].items[Segment(call.key, i)]
                        ELSE Unresolved
           IN  ret = FnReturned(IF node[n] # Unresolved THEN node[n] ELSE call.default)

\* "a.b" where "a" holds a string: the default comes back
C20_Witness ==
    /\ call.fn = "config_get"
    /\ call.key = <<"a", ".", "b">>
    /\ call.config_data.kind = "map"
    /\ <<"a">> \in DOMAIN call.config_data.items
    /\ call.config_data.items[<<"a">>] = Scalar("str")
    /\ call.default = Scalar("str")
    /\ ret = FnReturned(call.default)
\* the calls of the history that reached _get_engine for connection string c,
\* and those of them in which an engine was created
RequestsFor(c) ==
    {i \in 1..Len(engineRequests) :
        /\ engineRequests[i].connection_string = c
        /\ engineRequests[i].event # "unreached"}
CreationsFor(c) == {i \in RequestsFor(c) : engineRequests[i].event = "created"}

\* C21 as stated: an engine is created only on the first request for its
\* connection string.
C21_CreatedOnFirstRequestOnly ==
    \A c \in ConnectionStrings :
        \A i \in CreationsFor(c) : \A j \in RequestsFor(c) : i <= j

\* C21, amended: the cache holds at most one engine per connection string;
\* an engine is created only on a request for a connection string that has no
\* engine in the cache, every request after the creation gets the cached
\* engine and creates none, and a failed creation leaves the cache unchanged.
C21_OneEnginePerConnectionString ==
    \A c \in ConnectionStrings :
        /\ Cardinality(CreationsFor(c)) <= 1
        /\ c \in engines <=> CreationsFor(c) # {}
        /\ \A i \in RequestsFor(c) :
              LET r == engineRequests[i]
                  createdBefore == \E j \in CreationsFor(c) : j < i
              IN  /\ createdBefore <=> r.event = "cached"
                  /\ createdBefore <=> c \in r.before
                  /\ r.event \in {"cached", "failed"} => r.after = r.before
                  /\ r.event = "created" => r.after = r.before \cup {c}

\* a failed creation, then the creation, then a request served from the cache
C21_Witness ==
    /\ Len(engineRequests) = 3
    /\ \A i \in 1..3 : engineRequests[i].connection_string = ConnectionString("mysql")
    /\ engineRequests[1].event = "failed"
    /\ engineRequests[2].event = "created"
    /\ engineRequests[3].event = "cached"
    /\ engines = {ConnectionString("mysql")}
\* a call of extract_with_chunking the claim covers: chunk_size >= 1 and
\* nothing fails
ChunkingSucceeds ==
    /\ call.fn = "extract_with_chunking"
    /\ call.chunk_size >= 1
    /\ call.failAt = "none"

\* C22: for a table of N rows in a stable order and chunk_size c >= 1,
\* extract_with_chunking terminates; it has then requested the pages at
\* offsets 0, c, 2c, ... up to and including the first empty page and
\* returns the N rows in order, an empty dataset (not None) when N = 0.
C22_ChunkingReadsAllPagesAndEnds ==
    /\ []((ChunkingSucceeds /\ ret # NoRet)
            => LET pages == (call.n + call.chunk_size - 1) \div call.chunk_size
               IN  /\ ret = FnReturned(Frame([i \in 1..call.n |-> i]))
                   /\ locals.requested = [i \in 1..(pages + 1) |-> (i - 1) * call.chunk_size])
    /\ (ChunkingSucceeds ~> ret # NoRet)

\* four rows read two at a time: pages at 0 and 2, the empty page at 4
C22_Witness ==
    /\ ChunkingSucceeds
    /\ call.n = 4
    /\ call.chunk_size = 2
    /\ locals # NoLocals
    /\ locals.requested = <<0, 2, 4>>
    /\ ret = FnReturned(Frame(<<1, 2, 3, 4>>))

\* C23: every entry the extract loop appends to the errors list names the
\* source whose processing failed, and the handler of lines 140-143 never
\* raises, also for a source descriptor without a name or a type.
C23_ExtractErrorsNameFailedSource ==
    LET failed == LogOf("extract", "raised")
        entries == SelectSeq(RunErrors, LAMBDA e : e.at = "extract")
    IN  /\ fatalAt # "extract_handler"
        /\ Len(entries) = Len(failed)
        /\ \A i \in 1..Len(entries) : entries[i].item = failed[i].item

\* C24: on every call of run_pipeline, also a later one on the same instance,
\* the errors list is empty and records_processed is 0 when the run starts,
\* and the summary the run writes lists that run's errors only, so that a run
\* without failures reports SUCCESS.
C24_EachRunReportsItsOwnErrors ==
    /\ pc = "create_directories" => errors = <<>> /\ records_processed = 0
    /\ summaryWrites > 0
          => /\ summary_file.errors = RunErrors
             /\ RunErrors = <<>> => summary_file.status = "SUCCESS"

=============================================================================
